---- MODULE Spec2Model ----
(***************************************************************************)
(* State-machine model of SANSFitter (src/src/sans_fitter/sans_fitter.py): *)
(* the parameter registry, the form-factor / structure-factor binding and  *)
(* the engine-agnostic fit() with its two backends.                        *)
(*                                                                         *)
(* Floats are modelled by integers.  The model evaluator, the dataset      *)
(* loader and the optimisation backends are external collaborators: what   *)
(* they return is drawn from small sets, what the fitter does with it is   *)
(* translated from the code.                                               *)
(***************************************************************************)
EXTENDS Integers, Sequences, FiniteSets, TLC

\* ------------------------------------------------------------------ bounds
\* Largest number a caller passes to set_param / a backend returns.
MaxVal == 2
\* Number of fit() calls explored in one behaviour.
MaxFits == 2

\* ------------------------------------------------------- program constants
\* Python's None in a slot that holds a name or an object.
None == "None"
\* An optional value: << >> is None, << x >> is x.
Nothing == << >>
Some(x) == << x >>
Opt(S) == {Nothing} \cup {Some(x) : x \in S}
\* np.inf
Inf == 1000

Values == 1..MaxVal
StdErrs == {0, 1}

\* ------------------------------------------------- external: sasmodels data
\* The form-factor models load_model() knows; any other name fails to load.
ModelNames == {"sphere", "cylinder"}
BadModel == "invalid_model_name_xyz"

\* kernel.info.parameters.kernel_parameters of a loaded model:
\* name, default and limits of each declared parameter.
KernelParameters(m) ==
    IF m = "sphere"
    THEN << [name |-> "radius", default |-> 5, lo |-> 0,    hi |-> Inf],
            [name |-> "sld",    default |-> 4, lo |-> -Inf, hi |-> Inf] >>
    ELSE << [name |-> "radius", default |-> 6, lo |-> 0,    hi |-> Inf],
            [name |-> "length", default |-> 7, lo |-> 0,    hi |-> 90] >>

\* ----------------------------------------------------------------- state
VARIABLES
    data,          \* self.data: None or the loaded dataset
    kernel,        \* self.kernel: None or the loaded model
    model_name,    \* self.model_name
    params,        \* self.params: name -> [value, min, max, vary, description]
    order,         \* insertion order of the keys of self.params
    fit_result,    \* self.fit_result: None or the record of the last fit
    fitted_model,  \* self._fitted_model
    structure_factor,        \* active structure-factor kind or None
    radius_effective_mode,   \* link mode of the active structure factor
    call,          \* the name of the last call made on the fitter
    err,           \* how that call ended: "ok" or the error it raised
    message,       \* str() of the exception that call raised, "" if none
    nFits,         \* fit() calls so far
    returned,      \* the records fit() returned that the caller still holds
    output,        \* the file save_results writes: None or what it holds
    fitted_since_model,  \* history: a fit succeeded since the last set_model
    session        \* st.session_state of the app, apart from the fitter

vars == << data, kernel, model_name, params, order, fit_result, fitted_model,
           structure_factor, radius_effective_mode, call, err, message, nFits,
           returned, output, fitted_since_model, session >>

\* ------------------------------------------------------- registry helpers
\* An empty dict.
EmptyParams == [n \in {} |-> None]

\* d[name] = spec on an insertion-ordered dict, as the pair (order, params).
DictSet(reg, name, spec) ==
    [order  |-> IF name \in DOMAIN reg.params THEN reg.order
                ELSE Append(reg.order, name),
     params |-> [n \in (DOMAIN reg.params) \cup {name} |->
                    IF n = name THEN spec ELSE reg.params[n]]]

SeqToSet(s) == {s[i] : i \in 1..Len(s)}

\* ------------------------------------------------------------- set_model
\* An entry that takes part in the fit from the start.
ParamFromKernel_Varying(p) ==
    [value       |-> p.default,
     min         |-> IF p.lo > -Inf THEN p.lo ELSE 0,
     max         |-> IF p.hi < Inf THEN p.hi ELSE p.default * 10,
     vary        |-> TRUE,
     description |-> p.name]

\* An entry whose bounds are the declared limits as they are.
ParamFromKernel_DeclaredLimits(p) ==
    [value       |-> p.default,
     min         |-> p.lo,
     max         |-> p.hi,
     vary        |-> FALSE,
     description |-> p.name]

\* One entry of the registry built from a declared kernel parameter.
ParamFromKernel(p) ==
    [value       |-> p.default,
     min         |-> IF p.lo > -Inf THEN p.lo ELSE 0,
     max         |-> IF p.hi < Inf THEN p.hi ELSE p.default * 10,
     vary        |-> FALSE,
     description |-> p.name]

RECURSIVE AddKernelParams(_, _, _)
AddKernelParams(reg, kp, i) ==
    IF i > Len(kp) THEN reg
    ELSE AddKernelParams(DictSet(reg, kp[i].name, ParamFromKernel(kp[i])), kp, i + 1)

ImplicitScale ==
    [value |-> 1, min |-> 0, max |-> Inf, vary |-> FALSE,
     description |-> "Scale factor for the model intensity"]

ImplicitBackground ==
    [value |-> 0, min |-> 0, max |-> Inf, vary |-> FALSE,
     description |-> "Constant background level"]

\* set_model that updates the dict it finds instead of starting afresh.
InitialRegistry_KeepOld(old, m) ==
    LET r1 == AddKernelParams(old, KernelParameters(m), 1)
        r2 == IF "scale" \notin DOMAIN r1.params
              THEN DictSet(r1, "scale", ImplicitScale) ELSE r1
        r3 == IF "background" \notin DOMAIN r2.params
              THEN DictSet(r2, "background", ImplicitBackground) ELSE r2
    IN r3

\* set_model that stops after the declared parameters.
InitialRegistry_DeclaredOnly(old, m) ==
    AddKernelParams([order |-> << >>, params |-> EmptyParams], KernelParameters(m), 1)

\* set_model that carries over the entries of the names the two models
\* have in common.
InitialRegistry_KeepCommon(old, m) ==
    LET r0 == [order |-> << >>, params |-> EmptyParams]
        r1 == AddKernelParams(r0, KernelParameters(m), 1)
        r2 == DictSet(r1, "scale", ImplicitScale)
        r3 == DictSet(r2, "background", ImplicitBackground)
    IN [order |-> r3.order,
        params |-> [n \in DOMAIN r3.params |->
                       IF n \in DOMAIN old.params THEN old.params[n]
                       ELSE r3.params[n]]]

\* The registry set_model builds: starts from an empty dict.
InitialRegistry(old, m) ==
    LET r0 == [order |-> << >>, params |-> EmptyParams]
        r1 == AddKernelParams(r0, KernelParameters(m), 1)
        r2 == IF "scale" \notin DOMAIN r1.params
              THEN DictSet(r1, "scale", ImplicitScale) ELSE r1
        r3 == IF "background" \notin DOMAIN r2.params
              THEN DictSet(r2, "background", ImplicitBackground) ELSE r2
    IN r3

\* ------------------------------------------------------------- set_param
\* What a caller may pass for value / min / max / vary (Nothing = not given).
Updates ==
    [value : Opt(Values), min : Opt(Values), max : Opt(Values), vary : Opt(BOOLEAN)]

\* The four conditional assignments of set_param on one entry.
ApplyUpdate(spec, u) ==
    [value       |-> IF u.value # Nothing THEN u.value[1] ELSE spec.value,
     min         |-> IF u.min # Nothing THEN u.min[1] ELSE spec.min,
     max         |-> IF u.max # Nothing THEN u.max[1] ELSE spec.max,
     vary        |-> IF u.vary # Nothing THEN u.vary[1] ELSE spec.vary,
     description |-> spec.description]

\* A join that stops at the first key.
Join_FirstOnly(keys) == IF keys = << >> THEN "" ELSE keys[1]

\* ', '.join(keys)
RECURSIVE Join(_)
Join(keys) ==
    IF keys = << >> THEN ""
    ELSE IF Len(keys) = 1 THEN keys[1]
    ELSE keys[1] \o ", " \o Join(Tail(keys))

\* The text of the KeyError set_param raises.
NotFoundMessage(name, keys) ==
    "Parameter '" \o name \o "' not found. Available: " \o Join(keys)

\* set_param that applies the update to every parameter of the registry.
UpdateParam_All(p, name, u) == [n \in DOMAIN p |-> ApplyUpdate(p[n], u)]

\* set_param on a name that is in the registry.
UpdateParam(p, name, u) == [p EXCEPT ![name] = ApplyUpdate(p[name], u)]

\* ------------------------------------------- structure factors (binding)
StructureFactors == {"hardsphere", "hayter_msa", "squarewell", "stickyhardsphere"}
BadKind == "invalid_structure_factor"
RadiusEffectiveModes == {"unconstrained", "link_radius"}
BadMode == "invalid_mode"

\* The parameters a structure factor declares, with the library defaults.
StructureFactorParameters(kind) ==
    LET common == << [name |-> "volfraction",      default |-> 3, lo |-> 0, hi |-> 9],
                     [name |-> "radius_effective", default |-> 8, lo |-> 0, hi |-> Inf] >>
    IN IF kind = "hayter_msa"
       THEN Append(common, [name |-> "charge", default |-> 9, lo |-> 0, hi |-> 200])
       ELSE common

StructureFactorNames(kind) ==
    IF kind = None THEN {}
    ELSE {StructureFactorParameters(kind)[i].name :
            i \in 1..Len(StructureFactorParameters(kind))}

RECURSIVE FilterSeq(_, _)
FilterSeq(s, keep) ==
    IF s = << >> THEN << >>
    ELSE IF Head(s) \in keep THEN << Head(s) >> \o FilterSeq(Tail(s), keep)
         ELSE FilterSeq(Tail(s), keep)

\* remove() that overwrites the value of the parameters it keeps.
RemoveStructureFactorParams_Reset(reg, kind) ==
    LET keep == (DOMAIN reg.params) \ StructureFactorNames(kind)
    IN [order  |-> FilterSeq(reg.order, keep),
        params |-> [n \in keep |-> [reg.params[n] EXCEPT !.value = 1]]]

\* remove(origin = StructureFactor): drops the parameters of the active kind.
RemoveStructureFactorParams(reg, kind) ==
    LET keep == (DOMAIN reg.params) \ StructureFactorNames(kind)
    IN [order  |-> FilterSeq(reg.order, keep),
        params |-> [n \in keep |-> reg.params[n]]]

\* The link installed by link_radius mode.
InstallLink(p, mode) ==
    IF mode = "link_radius"
    THEN [p EXCEPT !["radius_effective"].value = p["radius"].value,
                   !["radius_effective"].vary = FALSE]
    ELSE p

\* merge() that forgets the charge of hayter_msa and resets the bounds of
\* the parameters that were there.
AttachStructureFactor_Lossy(reg, oldkind, kind, mode) ==
    LET r0 == RemoveStructureFactorParams(reg, oldkind)
        r1 == AddKernelParams(r0, StructureFactorParameters("hardsphere"), 1)
    IN [order |-> r1.order,
        params |-> [n \in DOMAIN r1.params |->
                       IF n \in DOMAIN r0.params
                       THEN [r1.params[n] EXCEPT !.min = 0] ELSE r1.params[n]]]

\* merge(extra_specs) for the declared parameters of kind, then the link.
AttachStructureFactor(reg, oldkind, kind, mode) ==
    LET r0 == RemoveStructureFactorParams(reg, oldkind)
        r1 == AddKernelParams(r0, StructureFactorParameters(kind), 1)
    IN [order |-> r1.order, params |-> InstallLink(r1.params, mode)]

\* A link that ignores the mode: radius_effective always follows radius.
PropagateLink_AnyMode(p, name, mode) ==
    IF name = "radius" /\ "radius_effective" \in DOMAIN p
    THEN [p EXCEPT !["radius_effective"].value = p["radius"].value]
    ELSE p

\* Link propagation inside update(): radius_effective follows radius.
PropagateLink(p, name, mode) ==
    IF name = "radius" /\ mode = "link_radius" /\ "radius_effective" \in DOMAIN p
    THEN [p EXCEPT !["radius_effective"].value = p["radius"].value]
    ELSE p

\* attach() that validates its arguments before it looks for the model.
AttachError_ArgumentsFirst(k, kind, mode) ==
    IF kind \notin StructureFactors THEN "UnsupportedKind"
    ELSE IF mode \notin RadiusEffectiveModes THEN "InvalidMode"
    ELSE IF k = None THEN "Precondition"
    ELSE "ok"

\* attach() that accepts any radius_effective_mode.
AttachError_AnyMode(k, kind, mode) ==
    IF k = None THEN "Precondition"
    ELSE IF kind \notin StructureFactors THEN "UnsupportedKind"
    ELSE "ok"

\* Which check of attach() fails first, or "ok".
AttachError(k, kind, mode) ==
    IF k = None THEN "Precondition"
    ELSE IF kind \notin StructureFactors THEN "UnsupportedKind"
    ELSE IF mode \notin RadiusEffectiveModes THEN "InvalidMode"
    ELSE "ok"

\* The text of the error each failed check raises.
BindingMessage(e) ==
    IF e = "Precondition" THEN "No form factor model loaded"
    ELSE IF e = "UnsupportedKind" THEN "Unsupported structure factor"
    ELSE IF e = "InvalidMode" THEN "Invalid radius_effective_mode"
    ELSE IF e = "NoStructureFactor" THEN "No structure factor is currently set"
    ELSE ""

\* What set_model does to the structure-factor binding: detaches it.
DetachOnSetModel(b) == [kind |-> None, mode |-> None]

\* detach() that tolerates a missing structure factor.
DetachError_Tolerant(kind) == "ok"

\* The check of detach().
DetachError(kind) == IF kind = None THEN "NoStructureFactor" ELSE "ok"

\* ------------------------------------------------ external: data, evaluator
\* The dataset a successful load yields: y and dy at the samples of x.
DataY == << 3, 5 >>
DataDY == << 1, 2 >>

\* calculator(**par_dict): predicted intensity at each sample, a pure
\* function of the parameter values.
Theory(par_dict) ==
    LET RECURSIVE Sum(_)
        Sum(S) == IF S = {} THEN 0
                  ELSE LET n == CHOOSE n \in S : TRUE
                       IN par_dict[n] + Sum(S \ {n})
        total == Sum(DOMAIN par_dict)
    IN [i \in 1..Len(DataY) |-> (total * i) % 7]

\* np.sum(residual**2) with residual = (y - I_calc) / dy, in units of 1/4
\* (dy is 1 or 2, so every term is a whole number of quarters).
ChiSq4(I_calc) ==
    LET RECURSIVE Acc(_)
        Acc(i) == IF i = 0 THEN 0
                  ELSE Acc(i - 1)
                       + ((DataY[i] - I_calc[i]) * (DataY[i] - I_calc[i]) * 4)
                         \div (DataDY[i] * DataDY[i])
    IN Acc(Len(DataY))

\* ------------------------------------------------------------------- fit
Engines == {"bumps", "lmfit"}
BadEngine == "invalid_engine"
LmfitMethods == {"leastsq", "least_squares", "differential_evolution"}
BadMethod == "invalid_method"

\* The method names bumps_fit accepts.
BumpsMethods == {"amoeba", "lm", "newton", "de"}

\* param_names: the names with vary = True.
VaryingSet(p) == {n \in DOMAIN p : p[n].vary}

\* f"{v:.6g}"
Fmt6g(v) == ToString(v)

\* bumps.formatnum.format_uncertainty(v, dv)
FormatUncertainty(v, dv) ==
    IF dv > 0 THEN Fmt6g(v) \o "(" \o Fmt6g(dv) \o ")" ELSE Fmt6g(v)

\* The 'formatted' string of a varying parameter in _fit_lmfit.
FormatLmfit(v, e) ==
    IF e > 0 THEN Fmt6g(v) \o " +/- " \o Fmt6g(e) ELSE Fmt6g(v)

\* The 'formatted' string of a fixed parameter in _fit_lmfit.
FormatFixed(v) == Fmt6g(v) \o " (fixed)"

\* A backend keeps a bounded search inside [min, max].
WithinBounds(p, x) == \A n \in DOMAIN x : p[n].min <= x[n] /\ x[n] <= p[n].max

\* What the collaborators do in one fit: fail names the collaborator that
\* raises ("none": nobody), x / dx the solution and uncertainty vectors,
\* cov whether the least-squares backend has a covariance to give.
FailedOutcomes ==
    [fail : {"model", "solver"}, x : {EmptyParams}, dx : {EmptyParams}, cov : {FALSE}]

\* An engine fit() does not know has no backend that could return anything;
\* a least-squares solver without a covariance has no uncertainties to give.
Outcomes(p, engine) ==
    FailedOutcomes
    \cup
    (IF engine \notin {"bumps", "lmfit"} THEN {}
     ELSE [fail : {"none"},
           x : [VaryingSet(p) -> Values], dx : [VaryingSet(p) -> StdErrs],
           cov : {TRUE}])
    \cup
    (IF engine # "lmfit" THEN {}
     ELSE [fail : {"none"},
           x : [VaryingSet(p) -> Values], dx : [VaryingSet(p) -> {0}],
           cov : {FALSE}])

\* A fit that uses the registry as the solver's scratch vector: when it
\* raises, the trial point (here the lower bounds) is left behind.
FitRaises_ScratchRegistry(p, fr, fm, e) ==
    [params |-> [n \in DOMAIN p |->
                    IF p[n].vary THEN [p[n] EXCEPT !.value = p[n].min] ELSE p[n]],
     fit_result |-> fr, fitted_model |-> fm, err |-> e]

\* The state a fit leaves when it raises e: nothing was stored.
FitRaises(p, fr, fm, e) ==
    [params |-> p, fit_result |-> fr, fitted_model |-> fm, err |-> e]

\* A write-back that never happens: the registry keeps the initial guesses.
WriteBack_Skipped(p, ks, x) == p

\* self.params[k]['value'] = x[k] for the names in ks.
WriteBack(p, ks, x) ==
    [n \in DOMAIN p |-> IF n \in ks THEN [p[n] EXCEPT !.value = x[n]] ELSE p[n]]

\* par_dict that leaves the vector x out: the prediction at the start values.
ParDict_HeldOnly(p, x) == [n \in DOMAIN p |-> p[n].value]

\* par_dict of residual(x): held values, overridden by the vector x.
ParDict(p, x) == [n \in DOMAIN p |-> IF n \in DOMAIN x THEN x[n] ELSE p[n].value]

\* The entries _fit_bumps puts in fit_result['parameters'].
BumpsEntries(p, labels, out) ==
    [k \in labels |-> [value |-> out.x[k], stderr |-> out.dx[k],
                       formatted |-> FormatUncertainty(out.x[k], out.dx[k])]]

\* _fit_bumps: labels are the parameters given a range, i.e. the varying ones.
FitBumps(p, fr, fm, method, out) ==
    IF out.fail # "none" \/ method \notin BumpsMethods
    THEN FitRaises(p, fr, fm, "ComputationFailure")
    ELSE LET labels == VaryingSet(p)
         IN [params |-> WriteBack(p, labels \cap DOMAIN p, out.x),
             fit_result |-> Some([engine |-> "bumps", method |-> method,
                                  chisq |-> ChiSq4(Theory(ParDict(p, out.x))),
                                  parameters |-> BumpsEntries(p, labels, out)]),
             fitted_model |-> "problem",
             err |-> "ok"]

\* What the scipy solver returned, kept as self._fitted_model: covariance says
\* whether it yields a covariance (leastsq: result[1] is not None;
\* least_squares: J.T @ J of result.jac can be inverted; differential
\* evolution: never).
LmfitResult(method, out) ==
    [solver |-> method, covariance |-> method # "differential_evolution" /\ out.cov]

\* param_errors that trusts the solver's vector whatever the method.
LmfitErrors_FromSolver(p, method, out) ==
    [n \in VaryingSet(p) |-> IF out.cov THEN out.dx[n] ELSE 0]

\* param_errors of _fit_lmfit for each method.
LmfitErrors(p, method, out) ==
    [n \in VaryingSet(p) |->
        IF method = "differential_evolution" THEN 0
        ELSE IF out.cov THEN out.dx[n] ELSE 0]

\* The entries _fit_lmfit puts in fit_result['parameters']: the varying
\* names first, then every other name of the registry as fixed.
LmfitEntries(p, x, errors) ==
    [n \in DOMAIN p |->
        IF n \in DOMAIN x
        THEN [value |-> x[n], stderr |-> errors[n],
              formatted |-> FormatLmfit(x[n], errors[n])]
        ELSE [value |-> p[n].value, stderr |-> 0,
              formatted |-> FormatFixed(p[n].value)]]

\* _fit_lmfit in which a covariance that cannot be had is an error.
FitLmfit_CovarianceFatal(p, fr, fm, method, out) ==
    IF method \notin LmfitMethods THEN FitRaises(p, fr, fm, "UnknownMethod")
    ELSE IF out.fail # "none" THEN FitRaises(p, fr, fm, "ComputationFailure")
    ELSE IF method # "differential_evolution" /\ ~out.cov
         THEN FitRaises(p, fr, fm, "ComputationFailure")
    ELSE LET errors == LmfitErrors(p, method, out)
         IN [params |-> WriteBack(p, VaryingSet(p), out.x),
             fit_result |-> Some([engine |-> "lmfit", method |-> method,
                                  chisq |-> ChiSq4(Theory(ParDict(p, out.x))),
                                  parameters |-> LmfitEntries(p, out.x, errors)]),
             fitted_model |-> LmfitResult(method, out),
             err |-> "ok"]

\* _fit_lmfit
FitLmfit(p, fr, fm, method, out) ==
    IF method \notin LmfitMethods THEN FitRaises(p, fr, fm, "UnknownMethod")
    ELSE IF out.fail # "none" THEN FitRaises(p, fr, fm, "ComputationFailure")
    ELSE LET errors == LmfitErrors(p, method, out)
         IN [params |-> WriteBack(p, VaryingSet(p), out.x),
             fit_result |-> Some([engine |-> "lmfit", method |-> method,
                                  chisq |-> ChiSq4(Theory(ParDict(p, out.x))),
                                  parameters |-> LmfitEntries(p, out.x, errors)]),
             fitted_model |-> LmfitResult(method, out),
             err |-> "ok"]

\* fit() that looks for the model before it looks for the data.
FitCall_ModelFirst(d, k, p, fr, fm, engine, method, out) ==
    IF k = None THEN FitRaises(p, fr, fm, "MissingModel")
    ELSE IF d = None THEN FitRaises(p, fr, fm, "MissingData")
    ELSE IF engine = "bumps"
         THEN FitBumps(p, fr, fm, IF method = None THEN "amoeba" ELSE method, out)
    ELSE IF engine = "lmfit"
         THEN FitLmfit(p, fr, fm, IF method = None THEN "leastsq" ELSE method, out)
    ELSE FitRaises(p, fr, fm, "UnknownEngine")

\* fit() that hands every engine it does not know to the default backend.
FitCall_DefaultEngine(d, k, p, fr, fm, engine, method, out) ==
    IF d = None THEN FitRaises(p, fr, fm, "MissingData")
    ELSE IF k = None THEN FitRaises(p, fr, fm, "MissingModel")
    ELSE IF engine = "lmfit"
         THEN FitLmfit(p, fr, fm, IF method = None THEN "leastsq" ELSE method, out)
    ELSE FitBumps(p, fr, fm, IF method = None THEN "amoeba" ELSE method, out)

\* fit(): the two precondition checks, then the dispatch on engine.
FitCall(d, k, p, fr, fm, engine, method, out) ==
    IF d = None THEN FitRaises(p, fr, fm, "MissingData")
    ELSE IF k = None THEN FitRaises(p, fr, fm, "MissingModel")
    ELSE IF engine = "bumps"
         THEN FitBumps(p, fr, fm, IF method = None THEN "amoeba" ELSE method, out)
    ELSE IF engine = "lmfit"
         THEN FitLmfit(p, fr, fm, IF method = None THEN "leastsq" ELSE method, out)
    ELSE FitRaises(p, fr, fm, "UnknownEngine")

\* The text of the ValueError fit() raises itself; what a collaborator
\* raises carries the collaborator's own text.
FitMessage(e, engine, method) ==
    IF e = "MissingData" THEN "No data loaded. Use load_data() first."
    ELSE IF e = "MissingModel" THEN "No model loaded. Use set_model() first."
    ELSE IF e = "UnknownEngine"
         THEN "Unknown engine '" \o engine \o "'. Use 'bumps' or 'lmfit'."
    ELSE IF e = "UnknownMethod"
         THEN "Unknown method '" \o method
              \o "'. Use 'leastsq', 'least_squares', or 'differential_evolution'."
    ELSE IF e = "ok" THEN ""
    ELSE "backend"

\* ------------------------------------------------------------ the fitter
\* The session the app starts with next to the fitter: the three flags are
\* False, the keys current_model and fit_result are absent, the file uploader
\* is empty; button is the button whose click started the last script run and
\* notice the message that run showed.
InitialSession ==
    [data_loaded |-> FALSE, model_selected |-> FALSE, fit_completed |-> FALSE,
     current_model |-> None, fit_result |-> Nothing, uploaded |-> "none",
     button |-> "none", notice |-> "none"]

Init ==
    /\ data = None
    /\ kernel = None
    /\ model_name = None
    /\ params = EmptyParams
    /\ order = << >>
    /\ fit_result = Nothing
    /\ fitted_model = None
    /\ structure_factor = None
    /\ radius_effective_mode = None
    /\ call = "init"
    /\ err = "ok"
    /\ message = ""
    /\ nFits = 0
    /\ returned = << >>
    /\ output = Nothing
    /\ fitted_since_model = FALSE
    /\ session = InitialSession

\* load_data(filename): what the loader does with the file is the input.
LoadOutcomes == {"loaded", "load_raises", "no_data", "setup_raises"}

LoadDataCall(outcome) ==
    /\ call' = "load_data"
    /\ data' = IF outcome = "loaded" THEN "dataset"
               ELSE IF outcome = "setup_raises" THEN "unprepared"
               ELSE data
    /\ err' = IF outcome = "loaded" THEN "ok" ELSE "ValueError"
    /\ message' = IF outcome = "loaded" THEN "" ELSE "Failed to load data"
    /\ UNCHANGED << kernel, model_name, params, order, fit_result, fitted_model,
                    structure_factor, radius_effective_mode, nFits,
                    returned, output, fitted_since_model >>

LoadData(outcome) == LoadDataCall(outcome) /\ UNCHANGED session

\* A set_model that empties the registry before it loads the model.
FailedSetModel_Cleared(k, mn, p, o) ==
    [kernel |-> k, model_name |-> mn, params |-> EmptyParams, order |-> << >>]

\* What a set_model whose load_model raises leaves bound: the raise comes
\* before the first assignment.
FailedSetModel(k, mn, p, o) ==
    [kernel |-> k, model_name |-> mn, params |-> p, order |-> o]

\* set_model(model_name)
SetModelCall(m) ==
    /\ call' = "set_model"
    /\ IF m \in ModelNames
       THEN LET reg == InitialRegistry([order |-> order, params |-> params], m)
                b == DetachOnSetModel([kind |-> structure_factor,
                                       mode |-> radius_effective_mode])
            IN /\ kernel' = m
               /\ model_name' = m
               /\ params' = reg.params
               /\ order' = reg.order
               /\ structure_factor' = b.kind
               /\ radius_effective_mode' = b.mode
               /\ err' = "ok"
               /\ message' = ""
               /\ fitted_since_model' = FALSE
       ELSE LET left == FailedSetModel(kernel, model_name, params, order)
            IN /\ kernel' = left.kernel
               /\ model_name' = left.model_name
               /\ params' = left.params
               /\ order' = left.order
               /\ err' = "ValueError"
               /\ message' = "Failed to load model '" \o m \o "'"
               /\ UNCHANGED << structure_factor, radius_effective_mode,
                               fitted_since_model >>
    /\ UNCHANGED << data, fit_result, fitted_model, nFits, returned, output >>

SetModel(m) == SetModelCall(m) /\ UNCHANGED session

\* set_param(name, value, min, max, vary)
SetParamCall(name, u) ==
    /\ call' = "set_param"
    /\ IF name \notin DOMAIN params
       THEN /\ err' = "KeyError"
            /\ message' = NotFoundMessage(name, order)
            /\ UNCHANGED params
       ELSE /\ params' = PropagateLink(UpdateParam(params, name, u), name,
                                       radius_effective_mode)
            /\ err' = "ok"
            /\ message' = ""
    /\ UNCHANGED << data, kernel, model_name, order, fit_result, fitted_model,
                    structure_factor, radius_effective_mode, nFits,
                    returned, output, fitted_since_model >>

SetParam(name, u) == SetParamCall(name, u) /\ UNCHANGED session

\* set_structure_factor(kind, radius_effective_mode)
SetStructureFactor(kind, mode) ==
    LET e == AttachError(kernel, kind, mode)
    IN /\ call' = "set_structure_factor"
       /\ err' = e
       /\ message' = BindingMessage(e)
       /\ IF e = "ok"
          THEN LET reg == AttachStructureFactor([order |-> order, params |-> params],
                                                structure_factor, kind, mode)
               IN /\ params' = reg.params
                  /\ order' = reg.order
                  /\ structure_factor' = kind
                  /\ radius_effective_mode' = mode
          ELSE UNCHANGED << params, order, structure_factor, radius_effective_mode >>
       /\ UNCHANGED << data, kernel, model_name, fit_result, fitted_model, nFits,
                       returned, output, fitted_since_model, session >>

\* remove_structure_factor()
RemoveStructureFactor ==
    /\ call' = "remove_structure_factor"
    /\ message' = BindingMessage(DetachError(structure_factor))
    /\ IF DetachError(structure_factor) # "ok"
       THEN /\ err' = DetachError(structure_factor)
            /\ UNCHANGED << params, order, structure_factor, radius_effective_mode >>
       ELSE LET reg == RemoveStructureFactorParams([order |-> order, params |-> params],
                                                   structure_factor)
            IN /\ params' = reg.params
               /\ order' = reg.order
               /\ structure_factor' = None
               /\ radius_effective_mode' = None
               /\ err' = "ok"
    /\ UNCHANGED << data, kernel, model_name, fit_result, fitted_model, nFits,
                    returned, output, fitted_since_model, session >>

\* Whether the backend of (engine, method) searches inside the bounds.
Bounded(engine, method) ==
    engine = "bumps" \/ method \in {"least_squares", "differential_evolution"}

Methods == {None, "amoeba", BadMethod} \cup LmfitMethods

\* self.fit_result = {...} that fills in the dict it already holds: every
\* reference the caller holds is a reference to that one dict.
StoreRecord_InPlace(heap, rec, keep) ==
    IF heap = << >> THEN (IF keep THEN << rec >> ELSE << >>)
    ELSE [i \in DOMAIN heap |-> rec]

\* self.fit_result = {...}: the dict literal is a new object, so the records
\* the caller holds from earlier calls stay as they are; keep says whether the
\* caller holds on to the one this call returns.
StoreRecord(heap, rec, keep) == IF keep THEN Append(heap, rec) ELSE heap

\* fit(engine, method) on the registry p.
FitOn(p, engine, method, out, keep) ==
    /\ nFits < MaxFits
    /\ (out.fail = "none" /\ Bounded(engine, method)) => WithinBounds(p, out.x)
    /\ call' = "fit"
    /\ LET r == FitCall(data, kernel, p, fit_result, fitted_model,
                        engine, method, out)
       IN /\ params' = r.params
          /\ fit_result' = r.fit_result
          /\ fitted_model' = r.fitted_model
          /\ err' = r.err
          /\ message' = FitMessage(r.err, engine, method)
    /\ returned' = IF err' = "ok" THEN StoreRecord(returned, fit_result'[1], keep)
                   ELSE returned
    /\ fitted_since_model' = (err' = "ok" \/ fitted_since_model)
    /\ nFits' = nFits + 1
    /\ UNCHANGED << data, kernel, model_name, order,
                    structure_factor, radius_effective_mode, output >>

\* fit(engine, method), its return value dropped by the caller
Fit(engine, method, out) ==
    FitOn(params, engine, method, out, FALSE) /\ UNCHANGED session

\* result = fit(engine, method), the caller holding on to result
FitKeep(engine, method, out) ==
    FitOn(params, engine, method, out, TRUE) /\ UNCHANGED session

\* ------------------------------------------------------- the calls explored
\* The set_param calls explored: a value alone, a vary flag alone, or the
\* two bounds together.
\* save_results(filename): the guard comes before the file is opened; once
\* open(filename, 'w') has run the file holds the header, and the rows follow
\* only if the fitted curve can be computed (curve is that outcome).
CurveOutcomes == {"computed", "raises"}

SaveResults_OpenFirst(curve) ==
    /\ call' = "save_results"
    /\ IF fit_result = Nothing
       THEN /\ err' = "ValueError"
            /\ message' = "No fit results to save. Run fit() first."
            /\ output' = Some("empty")
       ELSE /\ err' = IF curve = "computed" THEN "ok" ELSE "ComputationFailure"
            /\ message' = ""
            /\ output' = Some(IF curve = "computed" THEN "complete" ELSE "header")
    /\ UNCHANGED << data, kernel, model_name, params, order, fit_result,
                    fitted_model, structure_factor, radius_effective_mode,
                    nFits, returned, fitted_since_model, session >>

SaveResults(curve) ==
    /\ call' = "save_results"
    /\ IF fit_result = Nothing
       THEN /\ err' = "ValueError"
            /\ message' = "No fit results to save. Run fit() first."
            /\ UNCHANGED output
       ELSE /\ err' = IF curve = "computed" THEN "ok" ELSE "ComputationFailure"
            /\ message' = ""
            /\ output' = Some(IF curve = "computed" THEN "complete" ELSE "header")
    /\ UNCHANGED << data, kernel, model_name, params, order, fit_result,
                    fitted_model, structure_factor, radius_effective_mode,
                    nFits, returned, fitted_since_model, session >>

Edits ==
    {u \in Updates :
        \/ u.value # Nothing /\ u.min = Nothing /\ u.max = Nothing /\ u.vary = Nothing
        \/ u.value = Nothing /\ u.min = Nothing /\ u.max = Nothing /\ u.vary # Nothing
        \/ u.value = Nothing /\ u.min = Some(1) /\ u.max = Some(MaxVal) /\ u.vary = Nothing}

AnyLoad(outcomes) == \E outcome \in outcomes : LoadData(outcome)
AnyModel(models) == \E m \in models \cup {BadModel} : SetModel(m)
AnyParam(names) ==
    \E name \in (names \cap DOMAIN params) \cup {"invalid_param"}, u \in Edits :
        SetParam(name, u)
AnyStructureFactor ==
    \E kind \in StructureFactors \cup {BadKind},
       mode \in RadiusEffectiveModes \cup {BadMode} :
        SetStructureFactor(kind, mode)
AnyFit ==
    \E engine \in Engines \cup {BadEngine}, method \in Methods :
        \E out \in Outcomes(params, engine) : Fit(engine, method, out)

\* Model binding and registry: no dataset, no fit.
BindingNames == {"radius", "radius_effective"}

NextBinding ==
    \/ AnyModel(ModelNames)
    \/ AnyParam(BindingNames)
    \/ AnyStructureFactor
    \/ RemoveStructureFactor

SpecBinding == Init /\ [][NextBinding]_vars

\* Fitting a form-factor model: the set-up calls, then the fits.
\* radius is edited freely; scale is only released for the fit or held.
FitNames == {"radius"}
FlagNames == {"scale"}

AnyVary(names) ==
    \E name \in names \cap DOMAIN params, v \in BOOLEAN :
        SetParam(name, [value |-> Nothing, min |-> Nothing, max |-> Nothing,
                        vary |-> Some(v)])

NextFit ==
    \/ fit_result = Nothing /\ AnyLoad({"loaded", "load_raises"})
    \/ fit_result = Nothing /\ AnyModel({"sphere"})
    \/ fit_result = Nothing /\ AnyParam(FitNames)
    \/ fit_result = Nothing /\ AnyVary(FlagNames)
    \/ AnyFit

SpecFit == Init /\ [][NextFit]_vars

\* The set_param calls explored on the registry alone: every choice of which
\* of the four arguments are supplied, with any value and flag; a supplied
\* min is MaxVal and a supplied max is 1, so that bounds in the wrong order
\* are among the inputs.
Combos ==
    {u \in Updates : u.min \in {Nothing, Some(MaxVal)} /\ u.max \in {Nothing, Some(1)}}

\* The registry under set_model and set_param, with or without a hardsphere
\* structure factor; no dataset, no fit.
AnyUpdate(names) ==
    \/ \E name \in names \cap DOMAIN params, u \in Combos : SetParam(name, u)
    \/ \E u \in Edits : SetParam("invalid_param", u)
AnyHardsphere == \E mode \in RadiusEffectiveModes : SetStructureFactor("hardsphere", mode)

RegistryNames == {"radius"}

NextRegistry ==
    \/ AnyModel(ModelNames)
    \/ AnyUpdate(RegistryNames)
    \/ AnyHardsphere

SpecRegistry == Init /\ [][NextRegistry]_vars

\* The fitter used on after a fit: datasets and models are loaded again,
\* flags are changed, results are saved, and the caller holds on to every
\* record fit() returns. The engines run their default method; the k-th
\* fit() call reports the fitted value k with uncertainty 1 (so that two
\* fits never report the same), or fails in the solver.
KeptOutcomes(p, engine) ==
    {o \in Outcomes(p, engine) :
        /\ o.fail # "model"
        /\ o.fail = "none" =>
               /\ o.cov
               /\ \A n \in DOMAIN o.x : o.x[n] = nFits + 1 /\ o.dx[n] = 1}
AnyKeptFit ==
    \E engine \in Engines :
        \E out \in KeptOutcomes(params, engine) : FitKeep(engine, None, out)
AnySave == \E curve \in CurveOutcomes : SaveResults(curve)

RecordNames == {"radius"}

NextRecord ==
    \/ AnyLoad(LoadOutcomes)
    \/ AnyModel(ModelNames)
    \/ AnyVary(RecordNames)
    \/ AnyKeptFit
    \/ AnySave

SpecRecord == Init /\ [][NextRecord]_vars

\* ------------------------------------------------------------------ the app
\* Every click reruns the script from the top; an action below is one run.
MaxFloatDisplay == 999
MinFloatDisplay == -999

\* clamp_for_display(value)
ClampForDisplay(v) ==
    IF v = Inf THEN MaxFloatDisplay ELSE IF v = -Inf THEN MinFloatDisplay ELSE v

\* What the file uploader may hold: nothing, a file load_data accepts, or a
\* file the loader rejects.
UploadedFiles == {"none", "good", "bad"}

\* The run up to the early return: the example button if that was the click
\* (example is what load_data did with the example file, "none" if it was not
\* called), then the uploaded file, which is loaded again in every run.
\* Yields the dataset, the data_loaded flag and the last fitter call so far.
RunPrefix(example, upl) ==
    LET d1 == IF example = "loaded" THEN "dataset" ELSE data
        f1 == (example = "loaded") \/ session.data_loaded
        c1 == IF example = "none" THEN [call |-> call, err |-> err, message |-> message]
              ELSE IF example = "loaded"
                   THEN [call |-> "load_data", err |-> "ok", message |-> ""]
              ELSE [call |-> "load_data", err |-> "ValueError",
                    message |-> "Failed to load data"]
    IN IF upl = "none" THEN [data |-> d1, data_loaded |-> f1, last |-> c1,
                             notice |-> IF example = "none" THEN "none"
                                        ELSE IF example = "loaded" THEN "success"
                                        ELSE "error"]
       ELSE IF upl = "good"
            THEN [data |-> "dataset", data_loaded |-> TRUE,
                  last |-> [call |-> "load_data", err |-> "ok", message |-> ""],
                  notice |-> "success"]
       ELSE [data |-> d1, data_loaded |-> FALSE,
             last |-> [call |-> "load_data", err |-> "ValueError",
                       message |-> "Failed to load data"],
             notice |-> "error"]

\* A run that changes nothing in the fitter beyond the prefix.
PrefixOnly(pre, button) ==
    /\ data' = pre.data
    /\ call' = pre.last.call
    /\ err' = pre.last.err
    /\ message' = pre.last.message
    /\ session' = [session EXCEPT !.data_loaded = pre.data_loaded,
                                  !.button = button, !.notice = pre.notice]
    /\ UNCHANGED << kernel, model_name, params, order, fit_result, fitted_model,
                    structure_factor, radius_effective_mode, nFits, returned,
                    output, fitted_since_model >>

\* The user puts a file into the uploader, or takes it out.
AppChooseFile(f) ==
    /\ f # session.uploaded
    /\ session' = [session EXCEPT !.uploaded = f,
                       !.data_loaded = RunPrefix("none", f).data_loaded,
                       !.button = "none", !.notice = RunPrefix("none", f).notice]
    /\ data' = RunPrefix("none", f).data
    /\ call' = RunPrefix("none", f).last.call
    /\ err' = RunPrefix("none", f).last.err
    /\ message' = RunPrefix("none", f).last.message
    /\ UNCHANGED << kernel, model_name, params, order, fit_result, fitted_model,
                    structure_factor, radius_effective_mode, nFits, returned,
                    output, fitted_since_model >>

\* 'Load Example Data'
ExampleOutcomes == {"loaded", "load_raises"}

AppLoadExample(outcome) ==
    PrefixOnly(RunPrefix(outcome, session.uploaded), "load_example")

\* Load Model that leaves the fit status as it is.
LoadModelSession_KeepCompleted(s, m) ==
    [s EXCEPT !.model_selected = TRUE, !.current_model = m]

\* The session assignments after a set_model that returned.
LoadModelSession(s, m) ==
    [s EXCEPT !.model_selected = TRUE, !.current_model = m, !.fit_completed = FALSE]

\* 'Load Model' with the model chosen in the select box
AppLoadModel(m) ==
    LET pre == RunPrefix("none", session.uploaded)
    IN /\ pre.data_loaded
       /\ data' = pre.data
       /\ call' = "set_model"
       /\ IF m \in ModelNames
          THEN LET reg == InitialRegistry([order |-> order, params |-> params], m)
                   b == DetachOnSetModel([kind |-> structure_factor,
                                          mode |-> radius_effective_mode])
               IN /\ kernel' = m
                  /\ model_name' = m
                  /\ params' = reg.params
                  /\ order' = reg.order
                  /\ structure_factor' = b.kind
                  /\ radius_effective_mode' = b.mode
                  /\ err' = "ok"
                  /\ message' = ""
                  /\ fitted_since_model' = FALSE
                  /\ session' = [LoadModelSession(session, m) EXCEPT
                                    !.data_loaded = TRUE, !.button = "load_model",
                                    !.notice = "success"]
          ELSE LET left == FailedSetModel(kernel, model_name, params, order)
               IN /\ kernel' = left.kernel
                  /\ model_name' = left.model_name
                  /\ params' = left.params
                  /\ order' = left.order
                  /\ err' = "ValueError"
                  /\ message' = "Failed to load model '" \o m \o "'"
                  /\ session' = [session EXCEPT
                                    !.data_loaded = TRUE, !.button = "load_model",
                                    !.notice = "error"]
                  /\ UNCHANGED << structure_factor, radius_effective_mode,
                                  fitted_since_model >>
       /\ UNCHANGED << fit_result, fitted_model, nFits, returned, output >>

\* param_updates: what the widgets of the parameter table hold. The number
\* inputs show the registry's value, min and max through clamp_for_display;
\* w is what the user ticked in the 'Fit?' column.
ParamUpdates(p, w) ==
    [n \in DOMAIN p |->
        [value |-> Some(ClampForDisplay(p[n].value)),
         min   |-> Some(ClampForDisplay(p[n].min)),
         max   |-> Some(ClampForDisplay(p[n].max)),
         vary  |-> Some(IF n \in DOMAIN w THEN w[n] ELSE p[n].vary)]]

\* for param_name, updates in <dict>.items(): fitter.set_param(param_name, ...)
RECURSIVE SetParamEach(_, _, _, _)
SetParamEach(p, names, ups, mode) ==
    IF names = << >> THEN p
    ELSE SetParamEach(PropagateLink(UpdateParam(p, Head(names), ups[Head(names)]),
                                    Head(names), mode),
                      Tail(names), ups, mode)

\* The quick presets: the vary flag each gives a parameter.
Presets == {"scale_background", "fit_all", "fix_all"}

PresetUpdates(p, preset) ==
    [n \in DOMAIN p |->
        [value |-> Nothing, min |-> Nothing, max |-> Nothing,
         vary |-> Some(IF preset = "scale_background" THEN n \in {"scale", "background"}
                       ELSE preset = "fit_all")]]

\* A run that rewrites the registry with set_param for every parameter and
\* does nothing else: 'Update Parameters', or a preset (the click stores the
\* pending preset and reruns; the rerun applies it).
AppSetParams(ups, button) ==
    LET pre == RunPrefix("none", session.uploaded)
    IN /\ pre.data_loaded
       /\ session.model_selected
       /\ data' = pre.data
       /\ params' = SetParamEach(params, order, ups, radius_effective_mode)
       /\ call' = "set_param"
       /\ err' = "ok"
       /\ message' = ""
       /\ session' = [session EXCEPT !.data_loaded = TRUE, !.button = button,
                                     !.notice = IF button = "update" THEN "success"
                                                ELSE pre.notice]
       /\ UNCHANGED << kernel, model_name, order, fit_result, fitted_model,
                       structure_factor, radius_effective_mode, nFits, returned,
                       output, fitted_since_model >>

AppUpdateParameters(w) == AppSetParams(ParamUpdates(params, w), "update")
AppPreset(preset) == AppSetParams(PresetUpdates(params, preset), "preset")

\* A Run Fit that goes to fit() whatever the flags are.
any_vary_Unchecked(p) == TRUE

\* any_vary = any(p['vary'] for p in fitter.params.values())
any_vary(p) == \E n \in DOMAIN p : p[n].vary

\* The engine / method pairs the two select boxes offer; the explored ones
\* are the first method of each engine.
AppChoices ==
    ({"bumps"} \X BumpsMethods) \cup ({"lmfit"} \X LmfitMethods)

FirstChoices == {c \in AppChoices : c[2] \in {"amoeba", "leastsq"}}

\* 'Run Fit': the widget settings are applied, then fit() is called unless
\* no parameter varies. The app keeps the record in st.session_state.
AppRunFit(w, engine, method, out) ==
    LET pre == RunPrefix("none", session.uploaded)
        p1 == SetParamEach(params, order, ParamUpdates(params, w),
                           radius_effective_mode)
    IN /\ pre.data_loaded
       /\ session.model_selected
       /\ data' = pre.data
       /\ IF ~any_vary(p1)
          THEN /\ params' = p1
               /\ call' = "set_param"
               /\ err' = "ok"
               /\ message' = ""
               /\ session' = [session EXCEPT !.data_loaded = TRUE,
                                 !.button = "run_fit", !.notice = "warning"]
               /\ UNCHANGED << fit_result, fitted_model, nFits, fitted_since_model >>
          ELSE /\ nFits < MaxFits
               /\ (out.fail = "none" /\ Bounded(engine, method)) =>
                      WithinBounds(p1, out.x)
               /\ LET r == FitCall(pre.data, kernel, p1, fit_result, fitted_model,
                                   engine, method, out)
                  IN /\ params' = r.params
                     /\ fit_result' = r.fit_result
                     /\ fitted_model' = r.fitted_model
                     /\ err' = r.err
                     /\ message' = FitMessage(r.err, engine, method)
               /\ call' = "fit"
               /\ nFits' = nFits + 1
               /\ fitted_since_model' = (err' = "ok" \/ fitted_since_model)
               /\ session' = IF err' = "ok"
                             THEN [session EXCEPT !.data_loaded = TRUE,
                                      !.fit_completed = TRUE,
                                      !.fit_result = fit_result',
                                      !.button = "run_fit", !.notice = "success"]
                             ELSE [session EXCEPT !.data_loaded = TRUE,
                                      !.button = "run_fit", !.notice = "error"]
       /\ UNCHANGED << kernel, model_name, order, structure_factor,
                       radius_effective_mode, returned, output >>

\* The app in use: files, the sphere model and a name that does not load,
\* presets, ticks in the 'Fit?' column of radius; the k-th fit() reports the
\* value k with uncertainty 1, or fails in the solver.
AppNames == {"radius"}

AnyTicks(names) == [names \cap DOMAIN params -> BOOLEAN]

AnyAppFit ==
    \E w \in AnyTicks(AppNames), c \in FirstChoices :
        \E out \in KeptOutcomes(
                      SetParamEach(params, order, ParamUpdates(params, w),
                                   radius_effective_mode), c[1]) :
            AppRunFit(w, c[1], c[2], out)

NextApp ==
    \/ \E f \in UploadedFiles : AppChooseFile(f)
    \/ \E outcome \in ExampleOutcomes : AppLoadExample(outcome)
    \/ \E m \in {"sphere", BadModel} : AppLoadModel(m)
    \/ \E w \in AnyTicks(AppNames) : AppUpdateParameters(w)
    \/ \E preset \in Presets : AppPreset(preset)
    \/ AnyAppFit

SpecApp == Init /\ [][NextApp]_vars

\* The registry is a dict: its keys are exactly the names in order, once each.
TypeOK ==
    /\ DOMAIN params = SeqToSet(order)
    /\ Len(order) = Cardinality(DOMAIN params)

\* ------------------------------------------------------------ properties
StructureFactorParamNames == {"volfraction", "radius_effective", "charge"}

\* C1: a fit() that raises, for whatever reason, leaves the registry as it
\* was: the same names in the same order, and the same value, min, max and
\* vary for every parameter.
C1_FailedFitKeepsRegistry ==
    [][(call' = "fit" /\ err' # "ok") => (params' = params /\ order' = order)]_vars

\* A fit with a varying parameter has raised inside the backend.
C1_Witness ==
    /\ call = "fit"
    /\ err = "ComputationFailure"
    /\ kernel # None
    /\ \E n \in DOMAIN params : params[n].vary /\ params[n].value # params[n].min

\* C2: after a successful fit() every varying parameter holds the fitted
\* value the returned record reports for it, every fixed parameter keeps its
\* value, and names, order, min, max and vary are unchanged.
C2_FitWritesBackVarying ==
    [][(call' = "fit" /\ err' = "ok") =>
        /\ DOMAIN params' = DOMAIN params
        /\ order' = order
        /\ \A n \in DOMAIN params :
            /\ params'[n].min = params[n].min
            /\ params'[n].max = params[n].max
            /\ params'[n].vary = params[n].vary
            /\ params[n].vary =>
                  /\ n \in DOMAIN fit_result'[1].parameters
                  /\ params'[n].value = fit_result'[1].parameters[n].value
            /\ ~params[n].vary => params'[n].value = params[n].value]_vars

\* A fit has succeeded on a registry with a varying and a fixed parameter.
C2_Witness ==
    /\ call = "fit"
    /\ err = "ok"
    /\ \E n \in DOMAIN params :
          /\ params[n].vary
          /\ params[n].value = fit_result[1].parameters[n].value
    /\ \E n \in DOMAIN params : ~params[n].vary

\* C3: the record of a successful fit(), whatever the engine and method, has
\* an entry for every parameter of the registry: the fitted value and stderr
\* for a varying one, the held value with stderr 0 and "(fixed)" for a fixed one.
C3_RecordCoversRegistry ==
    [][(call' = "fit" /\ err' = "ok") =>
        \A n \in DOMAIN params :
            /\ n \in DOMAIN fit_result'[1].parameters
            /\ params[n].vary =>
                  fit_result'[1].parameters[n].value = params'[n].value
            /\ ~params[n].vary =>
                  fit_result'[1].parameters[n] =
                      [value |-> params[n].value, stderr |-> 0,
                       formatted |-> FormatFixed(params[n].value)]]_vars

\* C4: in link_radius mode radius_effective.vary is false and
\* radius_effective.value equals radius.value, right after
\* set_structure_factor(kind, 'link_radius') and right after every
\* set_param('radius', value=v).
C4_LinkedAfterAttachAndRadiusUpdate ==
    [][(/\ err' = "ok"
        /\ radius_effective_mode' = "link_radius"
        /\ \/ call' = "set_structure_factor"
           \/ \E u \in Updates : u.value # Nothing /\ SetParam("radius", u))
       => /\ params'["radius_effective"].vary = FALSE
          /\ params'["radius_effective"].value = params'["radius"].value]_vars

\* C5: a successful set_structure_factor(kind) adds volfraction and
\* radius_effective (and charge for hayter_msa) with vary = false, makes the
\* active kind equal to kind, and leaves value, min and max of every
\* form-factor parameter of the registry unchanged.
C5_AttachAddsAndPreserves ==
    [][\A kind \in StructureFactors, mode \in RadiusEffectiveModes :
        (SetStructureFactor(kind, mode) /\ err' = "ok") =>
            /\ structure_factor' = kind
            /\ \A n \in {"volfraction", "radius_effective"}
                        \cup (IF kind = "hayter_msa" THEN {"charge"} ELSE {}) :
                  n \in DOMAIN params' /\ params'[n].vary = FALSE
            /\ \A n \in (DOMAIN params) \ StructureFactorParamNames :
                  /\ n \in DOMAIN params'
                  /\ params'[n].value = params[n].value
                  /\ params'[n].min = params[n].min
                  /\ params'[n].max = params[n].max]_vars

\* hayter_msa is attached to a model whose radius was given new bounds.
C5_Witness ==
    /\ call = "set_structure_factor"
    /\ err = "ok"
    /\ structure_factor = "hayter_msa"
    /\ "charge" \in DOMAIN params
    /\ params["radius"].min = 1

\* C6: removing the structure factor leaves exactly the names the registry
\* had before the attach (the form factor's), no structure-factor parameter
\* and no active kind, and every surviving parameter as it is at the removal.
C6_RemoveRestoresNames ==
    [][(call' = "remove_structure_factor" /\ err' = "ok") =>
        /\ structure_factor' = None
        /\ radius_effective_mode' = None
        /\ DOMAIN params' = (DOMAIN params) \ StructureFactorParamNames
        /\ DOMAIN params' = DOMAIN InitialRegistry([order |-> << >>,
                                                    params |-> EmptyParams],
                                                   model_name).params
        /\ \A n \in DOMAIN params' : params'[n] = params[n]]_vars

\* A structure factor was removed from a model whose radius had been edited.
C6_Witness ==
    /\ call = "remove_structure_factor"
    /\ err = "ok"
    /\ kernel # None
    /\ params["radius"].value \in Values
    /\ params["radius"].vary

\* C7: after a successful set_model there is no active structure-factor
\* kind, no link mode, and no structure-factor parameter in the registry.
C7_SetModelDetaches ==
    (call = "set_model" /\ err = "ok") =>
        /\ structure_factor = None
        /\ radius_effective_mode = None
        /\ (DOMAIN params) \cap StructureFactorParamNames = {}

\* A model has just been selected.
C7_Witness ==
    /\ call = "set_model"
    /\ err = "ok"
    /\ kernel = "cylinder"
    /\ structure_factor = None

\* C8: set_structure_factor with no form-factor model bound raises the
\* Precondition error and changes neither the registry nor the active kind.
C8_AttachWithoutModel ==
    [][(call' = "set_structure_factor" /\ kernel = None) =>
        /\ err' = "Precondition"
        /\ params' = params
        /\ order' = order
        /\ structure_factor' = structure_factor
        /\ radius_effective_mode' = radius_effective_mode]_vars

\* set_structure_factor was refused for want of a model.
C8_Witness ==
    /\ call = "set_structure_factor"
    /\ err = "Precondition"
    /\ kernel = None
    /\ params = EmptyParams

\* C9: with a model bound, set_structure_factor raises Unsupported-Kind for
\* a kind outside the four and Invalid-Mode for a mode outside the two (of a
\* supported kind); neither adds a parameter nor changes the active kind.
C9_AttachRejectsKindAndMode ==
    [][\A kind \in StructureFactors \cup {BadKind},
          mode \in RadiusEffectiveModes \cup {BadMode} :
        (kernel # None /\ SetStructureFactor(kind, mode)) =>
            /\ kind \notin StructureFactors => err' = "UnsupportedKind"
            /\ (kind \in StructureFactors /\ mode \notin RadiusEffectiveModes)
                  => err' = "InvalidMode"
            /\ err' \in {"UnsupportedKind", "InvalidMode"} =>
                  /\ params' = params
                  /\ order' = order
                  /\ structure_factor' = structure_factor
                  /\ radius_effective_mode' = radius_effective_mode]_vars

\* An invalid mode was refused while a structure factor was attached.
C9_Witness ==
    /\ call = "set_structure_factor"
    /\ err = "InvalidMode"
    /\ kernel # None
    /\ structure_factor # None

\* C10: remove_structure_factor with no structure factor attached raises
\* the No-Structure-Factor error and leaves the registry as it is.
C10_RemoveWithoutStructureFactor ==
    [][(call' = "remove_structure_factor" /\ structure_factor = None) =>
        /\ err' = "NoStructureFactor"
        /\ params' = params
        /\ order' = order]_vars

\* A removal was refused on a model without a structure factor.
C10_Witness ==
    /\ call = "remove_structure_factor"
    /\ err = "NoStructureFactor"
    /\ kernel # None

\* C11: with a structure factor attached in unconstrained mode, set_param on
\* radius_effective sets the value and the vary flag it is given and leaves
\* radius as it was, and set_param on radius leaves radius_effective as it
\* was.
C11_UnconstrainedIndependent ==
    [][(/\ call' = "set_param"
        /\ structure_factor # None
        /\ radius_effective_mode = "unconstrained") =>
        \A u \in Edits :
            /\ SetParam("radius_effective", u) =>
                  /\ u.value # Nothing =>
                        params'["radius_effective"].value = u.value[1]
                  /\ u.vary # Nothing =>
                        params'["radius_effective"].vary = u.vary[1]
                  /\ params'["radius"] = params["radius"]
            /\ SetParam("radius", u) =>
                  params'["radius_effective"] = params["radius_effective"]]_vars

\* Unconstrained: radius_effective was made to vary and given a value of its
\* own, and radius was edited to another one.
C11_Witness ==
    /\ call = "set_param"
    /\ err = "ok"
    /\ radius_effective_mode = "unconstrained"
    /\ params["radius_effective"].vary
    /\ params["radius_effective"].value = 1
    /\ params["radius"].value = MaxVal


\* The names a model declares itself.
DeclaredNames(m) == {KernelParameters(m)[i].name : i \in 1..Len(KernelParameters(m))}

\* C12: after every successful set_model the registry has scale and
\* background; when the model does not declare them they have value 1 and 0,
\* min 0, max +infinity and vary false.
C12_ScaleAndBackgroundPresent ==
    [][(call' = "set_model" /\ err' = "ok") =>
        /\ {"scale", "background"} \subseteq DOMAIN params'
        /\ "scale" \notin DeclaredNames(model_name') =>
              /\ params'["scale"].value = 1
              /\ params'["scale"].min = 0
              /\ params'["scale"].max = Inf
              /\ params'["scale"].vary = FALSE
        /\ "background" \notin DeclaredNames(model_name') =>
              /\ params'["background"].value = 0
              /\ params'["background"].min = 0
              /\ params'["background"].max = Inf
              /\ params'["background"].vary = FALSE]_vars

\* cylinder, which declares neither scale nor background, was just set.
C12_Witness ==
    /\ call = "set_model"
    /\ err = "ok"
    /\ model_name = "cylinder"
    /\ "scale" \notin DeclaredNames(model_name)
    /\ params["scale"].max = Inf
    /\ params["background"].value = 0


\* The fields of one registry entry.
ParamFields == {"value", "min", "max", "vary", "description"}

\* C13: right after a successful set_model every parameter of the registry
\* has vary = false and carries the five fields value, min, max, vary and
\* description.
C13_AllFixedWithFiveFields ==
    [][(call' = "set_model" /\ err' = "ok") =>
        \A n \in DOMAIN params' :
            /\ params'[n].vary = FALSE
            /\ DOMAIN params'[n] = ParamFields]_vars

\* sphere was just set: its two declared parameters and the two implicit
\* ones are in the registry.
C13_Witness ==
    /\ call = "set_model"
    /\ err = "ok"
    /\ model_name = "sphere"
    /\ DOMAIN params = {"radius", "sld", "scale", "background"}

\* C14: for every parameter a model declares, set_model sets min to the
\* declared lower limit when it is finite and to 0 otherwise, and max to the
\* declared upper limit when it is finite and to 10 times the default
\* otherwise.
C14_BoundsDerivedFromLimits ==
    [][\A m \in ModelNames :
        (SetModel(m) /\ err' = "ok") =>
            \A i \in 1..Len(KernelParameters(m)) :
                LET p == KernelParameters(m)[i]
                IN /\ p.lo \notin {-Inf, Inf} => params'[p.name].min = p.lo
                   /\ p.lo \in {-Inf, Inf} => params'[p.name].min = 0
                   /\ p.hi \notin {-Inf, Inf} => params'[p.name].max = p.hi
                   /\ p.hi \in {-Inf, Inf} => params'[p.name].max = 10 * p.default]_vars

\* sphere was just set: the infinite lower limit of sld gave min 0, the
\* infinite upper limits of sld and radius gave 10 times their defaults.
C14_Witness ==
    /\ call = "set_model"
    /\ err = "ok"
    /\ model_name = "sphere"
    /\ params["sld"].min = 0
    /\ params["sld"].max = 40
    /\ params["radius"].max = 50


\* C15: in every state reachable by set_model, set_param and fit calls,
\* every parameter of the registry has min <= max.
C15_MinAtMostMax ==
    \A n \in DOMAIN params : params[n].min <= params[n].max


\* C16: a successful set_model(m) replaces the registry wholesale: the names
\* are m's declared parameters plus scale and background, each at its
\* default value and derived bounds with vary = false, whatever the registry
\* held before (edited values, bounds, vary flags, structure-factor
\* parameters).
C16_SetModelReplacesRegistry ==
    [][\A m \in ModelNames :
        (SetModel(m) /\ err' = "ok") =>
            /\ DOMAIN params' = DeclaredNames(m) \cup {"scale", "background"}
            /\ \A i \in 1..Len(KernelParameters(m)) :
                  LET p == KernelParameters(m)[i]
                      e == params'[p.name]
                  IN /\ e.value = p.default
                     /\ e.min = (IF p.lo > -Inf THEN p.lo ELSE 0)
                     /\ e.max = (IF p.hi < Inf THEN p.hi ELSE 10 * p.default)
                     /\ e.vary = FALSE
            /\ params'["scale"].value = 1 /\ params'["scale"].vary = FALSE
            /\ params'["scale"].min = 0 /\ params'["scale"].max = Inf
            /\ params'["background"].value = 0 /\ params'["background"].vary = FALSE
            /\ params'["background"].min = 0 /\ params'["background"].max = Inf]_vars

\* cylinder is bound: the registry has length and no sld, radius is at the
\* default of cylinder and no structure factor is attached.
C16_Witness ==
    /\ call = "set_model"
    /\ err = "ok"
    /\ model_name = "cylinder"
    /\ "sld" \notin DOMAIN params
    /\ "length" \in DOMAIN params
    /\ params["radius"].value = 6
    /\ structure_factor = None


\* C17: set_param with a name that is not in the registry raises KeyError,
\* the message lists the names of all the parameters of the registry, in
\* order, and the registry is unchanged.  (What such a call does is the same
\* for every choice of the optional arguments: value = 1 stands for all.)
C17_UnknownNameRaisesNotFound ==
    [][call' = "set_param" =>
        \A u \in {v \in Edits : v.value = Some(1)} :
            SetParam("invalid_param", u) =>
                LET RECURSIVE Listed(_)
                    Listed(i) == IF i = 0 THEN ""
                                 ELSE IF i = 1 THEN order[1]
                                 ELSE Listed(i - 1) \o ", " \o order[i]
                IN /\ err' = "KeyError"
                   /\ message' = "Parameter 'invalid_param' not found. Available: "
                                    \o Listed(Len(order))
                   /\ params' = params
                   /\ order' = order]_vars

\* An unknown name was refused on a registry of four parameters, all named
\* in the message.
C17_Witness ==
    /\ call = "set_param"
    /\ err = "KeyError"
    /\ order = << "radius", "sld", "scale", "background" >>
    /\ message = "Parameter 'invalid_param' not found. Available: radius, sld, scale, background"


\* What set_param(name, u) is said to do to the entry of name: the supplied
\* fields take the supplied values, the others and the description stay.
SuppliedFieldsSet(name, u) ==
    /\ params'[name].value = (IF u.value # Nothing THEN u.value[1] ELSE params[name].value)
    /\ params'[name].min = (IF u.min # Nothing THEN u.min[1] ELSE params[name].min)
    /\ params'[name].max = (IF u.max # Nothing THEN u.max[1] ELSE params[name].max)
    /\ params'[name].vary = (IF u.vary # Nothing THEN u.vary[1] ELSE params[name].vary)
    /\ params'[name].description = params[name].description
    /\ DOMAIN params' = DOMAIN params
    /\ order' = order

C19_FitPreconditions ==
    [][call' = "fit" =>
        /\ data = None =>
              /\ err' = "MissingData"
              /\ message' = "No data loaded. Use load_data() first."
        /\ (data # None /\ kernel = None) =>
              /\ err' = "MissingModel"
              /\ message' = "No model loaded. Use set_model() first."
        /\ (data = None \/ kernel = None) =>
              /\ fit_result' = fit_result
              /\ fitted_model' = fitted_model
              /\ params' = params]_vars

\* A fit was refused for want of data although a model with a varying
\* parameter was bound.
C19_Witness ==
    /\ call = "fit"
    /\ err = "MissingData"
    /\ data = None
    /\ kernel # None
    /\ \E n \in DOMAIN params : params[n].vary
    /\ fit_result = Nothing

\* C20: with data and model bound, fit() raises the Unknown-Engine error for
\* every engine other than 'bumps' and 'lmfit', and with engine 'lmfit' the
\* Unknown-Method error for every method other than 'leastsq',
\* 'least_squares' and 'differential_evolution'; fit_result and
\* _fitted_model are then what they were before the call.  (Such a call
\* never reaches a backend, so what it does is the same for every backend
\* outcome: a failing solver stands for all.)
C20_UnknownEngineAndMethod ==
    [][(call' = "fit" /\ data # None /\ kernel # None) =>
        \A out \in {o \in FailedOutcomes : o.fail = "solver"} :
            /\ \A method \in Methods :
                  Fit(BadEngine, method, out) =>
                      /\ err' = "UnknownEngine"
                      /\ fit_result' = fit_result
                      /\ fitted_model' = fitted_model
            /\ \A method \in Methods \ (LmfitMethods \cup {None}) :
                  Fit("lmfit", method, out) =>
                      /\ err' = "UnknownMethod"
                      /\ fit_result' = fit_result
                      /\ fitted_model' = fitted_model]_vars

\* An unknown engine was refused after a successful fit, whose record is
\* still the stored one.
C20_Witness ==
    /\ call = "fit"
    /\ err = "UnknownEngine"
    /\ data # None
    /\ kernel # None
    /\ fit_result # Nothing
    /\ fitted_model # None



\* C21: a record fit() has returned is never modified afterwards: whatever
\* call comes next (a later fit, set_param, set_model, load_data or
\* save_results), every record the caller holds keeps its engine, method,
\* chisq and per-parameter entries; a later successful fit stores and returns
\* a record of its own, one more than the caller held.
C21_ReturnedRecordsImmutable ==
    [][/\ \A i \in DOMAIN returned :
             i \in DOMAIN returned' /\ returned'[i] = returned[i]
       /\ (call' = "fit" /\ err' = "ok") =>
             /\ Len(returned') = Len(returned) + 1
             /\ fit_result' = Some(returned'[Len(returned')])]_vars

\* Two fits have returned different records, the caller holds both, and the
\* model has been replaced since.
C21_Witness ==
    /\ Len(returned) = 2
    /\ returned[1] # returned[2]
    /\ fit_result = Some(returned[2])
    /\ call = "set_model"
    /\ err = "ok"


\* C22: with engine 'lmfit' and method 'leastsq' (also as the default) or
\* 'least_squares', a solver that returns a solution but no usable
\* covariance does not fail the fit: wherever data and model are set, fit()
\* on such an outcome raises nothing, and the call that completes leaves
\* every varying parameter at the fitted value of the record, with stderr 0.
C22_MissingCovarianceNotFatal ==
    /\ []((data # None /\ kernel # None) =>
            \A method \in {None, "leastsq", "least_squares"} :
              \A out \in {o \in Outcomes(params, "lmfit") : o.fail = "none" /\ ~o.cov} :
                FitCall(data, kernel, params, fit_result, fitted_model,
                        "lmfit", method, out).err = "ok")
    /\ [][(call' = "fit" /\ err' = "ok" /\ fit_result'[1].engine = "lmfit"
              /\ fit_result'[1].method \in {"leastsq", "least_squares"}
              /\ ~fitted_model'.covariance) =>
            \A n \in VaryingSet(params) :
                /\ params'[n].value = fit_result'[1].parameters[n].value
                /\ fit_result'[1].parameters[n].stderr = 0]_vars

\* A least-squares fit has completed without a covariance and moved a
\* varying parameter.
C22_Witness ==
    /\ call = "fit"
    /\ err = "ok"
    /\ fit_result # Nothing
    /\ fit_result[1].engine = "lmfit"
    /\ fit_result[1].method = "least_squares"
    /\ ~fitted_model.covariance
    /\ \E n \in DOMAIN params :
          /\ params[n].vary
          /\ params[n].value = MaxVal
          /\ fit_result[1].parameters[n].stderr = 0

\* C23: a successful fit with engine 'lmfit' and method
\* 'differential_evolution' records stderr 0 for every varying parameter; and
\* with any of the three lmfit methods an entry whose stderr is 0 is formatted
\* as the value alone (a varying parameter) or the value followed by
\* " (fixed)" (a fixed one), never with an uncertainty suffix.
C23_ZeroStderrNoSuffix ==
    [][(call' = "fit" /\ err' = "ok" /\ fit_result'[1].engine = "lmfit") =>
        LET entries == fit_result'[1].parameters
        IN /\ fit_result'[1].method = "differential_evolution" =>
                \A n \in VaryingSet(params) : entries[n].stderr = 0
           /\ \A n \in DOMAIN entries :
                entries[n].stderr = 0 =>
                    /\ entries[n].formatted # Fmt6g(entries[n].value) \o " +/- " \o Fmt6g(0)
                    /\ entries[n].formatted =
                          IF n \in VaryingSet(params) THEN Fmt6g(entries[n].value)
                          ELSE Fmt6g(entries[n].value) \o " (fixed)"]_vars

\* A differential evolution fit has completed with a varying parameter.
C23_Witness ==
    /\ call = "fit"
    /\ err = "ok"
    /\ fit_result # Nothing
    /\ fit_result[1].engine = "lmfit"
    /\ fit_result[1].method = "differential_evolution"
    /\ \E n \in DOMAIN params :
          /\ params[n].vary
          /\ fit_result[1].parameters[n].stderr = 0
          /\ fit_result[1].parameters[n].formatted = Fmt6g(params[n].value)

\* C24: for each of the three lmfit methods the chisq of the returned record
\* is the sum over the data points of ((observed - predicted) / uncertainty)^2
\* (held in quarters), the prediction taken at the fitted values of the
\* varying parameters and the values the registry held for the fixed ones.
C24_ChisqIsWeightedSum ==
    [][(call' = "fit" /\ err' = "ok" /\ fit_result'[1].engine = "lmfit") =>
        LET final == [n \in DOMAIN params |->
                         IF params[n].vary THEN params'[n].value
                         ELSE params[n].value]
            predicted == Theory(final)
            Term4(i) == (4 * (DataY[i] - predicted[i]) * (DataY[i] - predicted[i]))
                            \div (DataDY[i] * DataDY[i])
        IN fit_result'[1].chisq = Term4(1) + Term4(2)]_vars

\* An lmfit fit has moved a varying parameter away from its start value and
\* recorded a chisq that is not zero.
C24_Witness ==
    /\ call = "fit"
    /\ err = "ok"
    /\ fit_result # Nothing
    /\ fit_result[1].engine = "lmfit"
    /\ fit_result[1].chisq > 0
    /\ Len(DataY) = 2
    /\ \E n \in DOMAIN params :
          /\ params[n].vary
          /\ params[n].value = 1
          /\ \E m \in DOMAIN params : ~params[m].vary


\* C25: save_results with no fit result stored raises ValueError and leaves
\* the output file as it was: it is neither opened nor written.
C25_SaveWithoutFitRaises ==
    [][(call' = "save_results" /\ fit_result = Nothing) =>
        /\ err' = "ValueError"
        /\ message' = "No fit results to save. Run fit() first."
        /\ output' = output]_vars

\* save_results has been refused on a fitter with data and model whose only
\* fit so far has failed.
C25_Witness ==
    /\ call = "save_results"
    /\ err = "ValueError"
    /\ fit_result = Nothing
    /\ output = Nothing
    /\ data # None
    /\ kernel # None
    /\ nFits > 0

\* C26: a load_data that fails raises ValueError and nothing else, and the
\* dataset bound before the call, or the absence of one, is unchanged.
C26_FailedLoadKeepsDataset ==
    [][(call' = "load_data" /\ err' # "ok") =>
        (err' = "ValueError" /\ data' = data)]_vars

\* C28: a set_model whose model fails to load raises ValueError and leaves
\* kernel, model_name and the registry (names, order and every field) as
\* they were before the call.
C28_FailedSetModelKeepsModel ==
    [][(call' = "set_model" =>
           /\ SetModel(BadModel) => err' = "ValueError"
           /\ err' # "ok" =>
                /\ err' = "ValueError"
                /\ kernel' = kernel
                /\ model_name' = model_name
                /\ params' = params
                /\ order' = order)]_vars

\* A set_model has failed on a fitter whose model was selected before and
\* whose radius has been edited since.
C28_Witness ==
    /\ call = "set_model"
    /\ err = "ValueError"
    /\ kernel = "sphere"
    /\ model_name = "sphere"
    /\ "radius" \in DOMAIN params
    /\ params["radius"].vary
    /\ params["radius"].min = MaxVal

\* C29: whenever a fit result is stored, every parameter name of its
\* 'parameters' is a name of the current registry.
C29_RecordNamesInRegistry ==
    fit_result # Nothing => DOMAIN fit_result[1].parameters \subseteq DOMAIN params


\* C27: when no parameter of the registry has vary = true at the check Run
\* Fit makes (that is, once the widget settings are applied), the run does not
\* call fit(): it shows the warning, and fit_completed and the stored fit
\* result, in the session and in the fitter, are what they were.
C27_RunFitWithoutVaryingWarns ==
    [][(session'.button = "run_fit" /\ VaryingSet(params') = {}) =>
        /\ call' # "fit"
        /\ nFits' = nFits
        /\ session'.notice = "warning"
        /\ session'.fit_completed = session.fit_completed
        /\ session'.fit_result = session.fit_result
        /\ fit_result' = fit_result]_vars

\* Run Fit has warned in a session that had a completed fit to keep.
C27_Witness ==
    /\ session.button = "run_fit"
    /\ session.notice = "warning"
    /\ VaryingSet(params) = {}
    /\ session.fit_completed
    /\ session.fit_result # Nothing
    /\ nFits = 1

\* C30: in the app session a Load Model whose set_model returns sets
\* fit_completed to false; fit_completed turns true only in a run whose
\* fit() call returns without error; and so, in every state, fit_completed
\* implies that a fit has succeeded since the last successful Load Model.
C30_FitCompletedMeansFitSinceModel ==
    /\ [](session.fit_completed => fitted_since_model)
    /\ [][/\ (session'.button = "load_model" /\ call' = "set_model" /\ err' = "ok")
                => ~session'.fit_completed
          /\ (~session.fit_completed /\ session'.fit_completed)
                => (call' = "fit" /\ err' = "ok" /\ nFits' = nFits + 1)]_vars

\* A model has been loaded again after a completed fit, and no fit has
\* succeeded since.
C30_Witness ==
    /\ session.button = "load_model"
    /\ err = "ok"
    /\ ~session.fit_completed
    /\ session.fit_result # Nothing
    /\ fit_result # Nothing
    /\ ~fitted_since_model

====
